---- MODULE Spec2Model ----
(***************************************************************************)
(* Model of the agent's turn engine (src/src/agent.py), its provider       *)
(* adapters' retry loops (src/src/providers/gemini.py, openrouter.py), the *)
(* cache checkpoint manager (src/src/cache.py) and the undo manager        *)
(* (src/src/undo.py).                                                      *)
(*                                                                         *)
(* The program is one asyncio task per turn.  Control can only be taken    *)
(* from it at an await that really suspends: the HTTP call                 *)
(* (asyncio.to_thread), the backoff sleep, the approval prompt and a tool  *)
(* that awaits (describe_image).  bash, update_file and the other tools    *)
(* are "async def" bodies without an await, so they run to completion      *)
(* without yielding.  The key handlers (Ctrl-W: stop, Ctrl-C: cancel) are  *)
(* therefore enabled only at the suspended positions; at the approval      *)
(* prompt the keys go to the prompt, whose answers include Ctrl-C.         *)
(***************************************************************************)
EXTENDS Integers, Sequences, FiniteSets, TLC

VARIABLES
    provider,       \* config.provider
    mode,           \* config.mode
    model,          \* config.model
    git_available,  \* UndoManager.git_available
    git_works,      \* environment: whether git add / write-tree succeed
    messages,       \* agent.messages, the conversation
    history,        \* UndoManager.history, the snapshot stack
    fs,             \* the files on disk: path -> content or Absent
    pc,             \* position of the program (see PCs)
    stop_requested, \* process_turn.stop_requested
    apc,            \* position of the provider adapter's retry loop
    attempt,        \* the retry loop's counter of the provider call
    tool_calls,     \* execute_tools: the batch being executed
    idx,            \* execute_tools: position in tool_calls (1-based)
    tool_output,    \* tools.py: the text a tool hands to limit_output
    limited,        \* what limit_output returned for it
    \* ---- observation (history) variables, read by the properties only
    sent,           \* HTTP requests sent by the current provider call
    callEnd,        \* how the last provider call ended
    msgsAtCall,     \* the conversation when the current call's request went out
    outcome,        \* how the last turn ended
    lastOp,         \* the operation that produced this state
    turnStarts,     \* the conversation as each not yet undone turn found it
    fileStarts,     \* the files as each not yet undone turn found them
    orphaned,       \* an HTTP request whose awaiting task was cancelled is still in flight
    undoRun,        \* successful undos since the last turn was submitted
    answers,        \* the HTTP answers the current provider call has received
    toolRuns,       \* tool implementations invoked in the current turn
    stopAtAppend    \* stop flag when the last tool-calling assistant message was appended

vars == <<provider, mode, model, git_available, git_works, messages, history, fs, pc,
          stop_requested, apc, attempt, tool_calls, idx, tool_output, limited, sent, callEnd, msgsAtCall,
          outcome, lastOp, turnStarts, fileStarts, orphaned, undoRun, answers, toolRuns,
          stopAtAppend>>

(***************************************************************************)
(* Bounds of the model.                                                    *)
(***************************************************************************)
MaxMsgs == 5            \* longest conversation explored (system message included)
MaxTurns == MaxMsgs - 3 \* most turns on the snapshot stack

(***************************************************************************)
(* Program constants.                                                      *)
(***************************************************************************)
MAX_RETRIES == 3
CHECKPOINT_INTERVAL == 8
MAX_CHECKPOINTS == 4
SYSTEM_AND_TOOLS_CHECKPOINTS == 2
HISTORY_CHECKPOINTS_QUOTA == MAX_CHECKPOINTS - SYSTEM_AND_TOOLS_CHECKPOINTS

Providers == {"gemini", "openrouter"}
Modes == {"auto", "manual"}
Models == {"google/gemini-3-pro-preview", "anthropic/claude-sonnet"}

SYSTEM_PROMPT == "You are a powerful agentic AI assistant."

(***************************************************************************)
(* Messages.  Every message has the same fields; a field the Python dict   *)
(* does not carry is empty.  "content" is a plain string (str = TRUE) or a *)
(* list of parts, each with its text and whether it carries cache_control. *)
(***************************************************************************)
StrContent(t) == [str |-> TRUE, text |-> t, parts |-> <<>>]
ListContent(ps) == [str |-> FALSE, text |-> "", parts |-> ps]
Part(t, c) == [text |-> t, cc |-> c]

SystemMsg ==
    [role |-> "system", content |-> StrContent(SYSTEM_PROMPT),
     tool_calls |-> <<>>, tool_call_id |-> "", name |-> ""]

UserMsgAsSystem(user_input) ==
    [role |-> "system", content |-> StrContent(user_input),
     tool_calls |-> <<>>, tool_call_id |-> "", name |-> ""]

UserMsg(user_input) ==
    [role |-> "user", content |-> StrContent(user_input),
     tool_calls |-> <<>>, tool_call_id |-> "", name |-> ""]

AssistantMsg(text, calls) ==
    [role |-> "assistant", content |-> StrContent(text),
     tool_calls |-> calls, tool_call_id |-> "", name |-> ""]

ToolMsg(tc, result) ==
    [role |-> "tool", content |-> StrContent(result),
     tool_calls |-> <<>>, tool_call_id |-> tc.id, name |-> tc.name]

(***************************************************************************)
(* Cache checkpoint manager: cache.py manage_cache.  Indices named py are  *)
(* Python's 0-based indices; message py is msgs[py + 1].                   *)
(***************************************************************************)
is_anthropic(m) == m \in {"anthropic/claude-sonnet"}

has_cache(content) ==
    /\ ~content.str
    /\ \E k \in 1..Len(content.parts) : content.parts[k].cc

MarkLastDroppingText(content) ==
    IF content.str THEN ListContent(<<Part("", TRUE)>>)
    ELSE IF Len(content.parts) > 0
         THEN ListContent([content.parts EXCEPT ![Len(content.parts)] = Part("", TRUE)])
         ELSE content

\* content[-1]["cache_control"] = {...}, after coercing a string to one part
MarkLast(content) ==
    IF content.str THEN ListContent(<<Part(content.text, TRUE)>>)
    ELSE IF Len(content.parts) > 0
         THEN ListContent([content.parts EXCEPT ![Len(content.parts)].cc = TRUE])
         ELSE content

\* del block["cache_control"] for every block of a list content
Unmark(content) ==
    IF content.str THEN content
    ELSE ListContent([k \in 1..Len(content.parts) |-> Part(content.parts[k].text, FALSE)])

LeaveSystemMessage(msgs) == msgs

\* 1. Ensure System Prompt has cache_control
EnsureSystemMarker(msgs) ==
    LET sys == {p \in 1..Len(msgs) : msgs[p].role = "system"} IN
    IF sys = {} THEN msgs
    ELSE LET s == CHOOSE p \in sys : \A q \in sys : p <= q
             c == msgs[s].content
         IN  IF c.str THEN [msgs EXCEPT ![s].content = MarkLast(c)]
             ELSE IF ~has_cache(c) /\ Len(c.parts) > 0
                  THEN [msgs EXCEPT ![s].content = MarkLast(c)]
                  ELSE msgs

has_content_if_string(m) == m.content.str /\ m.content.text # ""

has_content(m) ==
    IF m.content.str THEN m.content.text # "" ELSE Len(m.content.parts) > 0

RECURSIVE candidate_indices(_, _)
candidate_indices(msgs, py) ==
    IF py >= Len(msgs) THEN <<>>
    ELSE (IF msgs[py + 1].role # "system" /\ py % CHECKPOINT_INTERVAL = 0 /\ py > 0
          THEN <<py>> ELSE <<>>) \o candidate_indices(msgs, py + 1)

search_order_forward_first(index) == <<index, index + 1, index - 1, index + 2, index - 2>>

search_order(index) == <<index, index - 1, index + 1, index - 2, index + 2>>

RECURSIVE FirstHit(_, _, _)
FirstHit(msgs, order, k) ==
    IF k > Len(order) THEN -1
    ELSE IF 0 < order[k] /\ order[k] < Len(msgs) /\ has_content(msgs[order[k] + 1])
         THEN order[k]
         ELSE FirstHit(msgs, order, k + 1)

best_index(msgs, index) == FirstHit(msgs, search_order(index), 1)

InSeq(x, s) == \E k \in 1..Len(s) : s[k] = x

RECURSIVE SnapAll(_, _, _, _)
SnapAll(msgs, cands, k, acc) ==
    IF k > Len(cands) THEN acc
    ELSE LET b == best_index(msgs, cands[k]) IN
         SnapAll(msgs, cands, k + 1,
                 IF b # -1 /\ ~InSeq(b, acc) THEN Append(acc, b) ELSE acc)

FirstN(s, n) == IF Len(s) > n THEN SubSeq(s, 1, n) ELSE s

\* final_indices[-HISTORY_CHECKPOINTS_QUOTA:]
LastN(s, n) == IF Len(s) > n THEN SubSeq(s, Len(s) - n + 1, Len(s)) ELSE s

final_indices(msgs) ==
    LastN(SnapAll(msgs, candidate_indices(msgs, 0), 1, <<>>), HISTORY_CHECKPOINTS_QUOTA)

\* 2. Manage History Checkpoints: the closing loop over the messages
ApplyCheckpoints(msgs) ==
    LET keep == final_indices(msgs) IN
    [p \in 1..Len(msgs) |->
        IF msgs[p].role = "system" THEN msgs[p]
        ELSE LET is_desired == InSeq(p - 1, keep)
                 has_checkpoint == has_cache(msgs[p].content)
             IN  IF has_checkpoint /\ ~is_desired
                 THEN [msgs[p] EXCEPT !.content = Unmark(msgs[p].content)]
                 ELSE IF ~has_checkpoint /\ is_desired
                      THEN [msgs[p] EXCEPT !.content = MarkLast(msgs[p].content)]
                      ELSE msgs[p]]

manage_cache(msgs, m) ==
    IF ~is_anthropic(m) THEN msgs ELSE ApplyCheckpoints(EnsureSystemMarker(msgs))

(***************************************************************************)
(* Tool calls as the backend returns them.  "arguments" is a JSON string;  *)
(* json.loads is modelled on the strings the model draws from.             *)
(***************************************************************************)
ARGS_WRITE == "{\"path\": \"/w/f\", \"content\": \"new\"}"
ARGS_IMAGE == "{\"paths\": [\"/w/a.png\"]}"
ARGS_NONE == "{}"
ARGS_BROKEN == "{\"path\": "

ArgStrings == {ARGS_WRITE, ARGS_IMAGE, ARGS_NONE, ARGS_BROKEN}

\* json.loads(arguments) raises on a string that is not JSON
JsonInvalid(a) == a = ARGS_BROKEN

\* args = json.loads(arguments) if arguments else {}: the keys of the dict
ArgKeys(a) ==
    CASE a = ARGS_WRITE -> {"path", "content"}
      [] a = ARGS_IMAGE -> {"paths"}
      [] OTHER -> {}

\* tools.py: the registry and each tool's required parameters
ToolRegistry == {"update_file", "describe_image"}
ToolNames == ToolRegistry \cup {"no_such_tool"}
IdPool == {"call_1", "call_2"}

Required(name) ==
    CASE name = "update_file" -> {"path", "content"}
      [] name = "describe_image" -> {"paths"}
      [] OTHER -> {}
Optional(name) == IF name = "update_file" THEN {"old_content"} ELSE {}

\* TOOLS[name](**args) raises TypeError unless the keywords fit the signature
KeywordsFit(name, a) ==
    /\ Required(name) \subseteq ArgKeys(a)
    /\ ArgKeys(a) \subseteq Required(name) \cup Optional(name)

\* the argument strings the model draws for each tool name
ArgsDrawn(name) ==
    CASE name = "update_file" -> {ARGS_WRITE}
      [] name = "describe_image" -> {ARGS_IMAGE}
      [] OTHER -> {ARGS_NONE, ARGS_BROKEN}

ToolCalls ==
    {tc \in [id : IdPool, name : ToolNames, arguments : ArgStrings] :
        tc.arguments \in ArgsDrawn(tc.name)}

\* a batch has at most as many calls as the pool has ids, so that its ids
\* can be pairwise distinct as well as colliding
MaxBatch == Cardinality(IdPool)

(***************************************************************************)
(* Undo manager: undo.py.  A snapshot is [messages, type, data]; data is   *)
(* the tree (type "git": every path's content) or the pre-image map (type  *)
(* "manual": a path not yet recorded maps to Unrecorded, a path that did   *)
(* not exist to Absent, Python's None).                                    *)
(***************************************************************************)
Absent == "<absent>"
Unrecorded == "<unrecorded>"
Paths == {"/w/f", "/w/g"}

\* _git_snapshot: the tree hash, or None (here FALSE) when a git command fails
git_snapshot == git_works

start_turn_unless_git_fails(hist, msgs, files) ==
    IF git_available /\ ~git_snapshot THEN hist
    ELSE Append(hist,
                IF git_available
                THEN [messages |-> msgs, type |-> "git", data |-> files]
                ELSE [messages |-> msgs, type |-> "manual",
                      data |-> [p \in Paths |-> Unrecorded]])

start_turn(hist, msgs, files) ==
    Append(hist,
           IF git_available /\ git_snapshot
           THEN [messages |-> msgs, type |-> "git", data |-> files]
           ELSE [messages |-> msgs, type |-> "manual",
                 data |-> [p \in Paths |-> Unrecorded]])

snapshots_sharing_messages(hist, live) ==
    [k \in 1..Len(hist) |->
        [hist[k] EXCEPT !.messages = [i \in 1..Len(hist[k].messages) |-> live[i]]]]

\* start_turn, copy.deepcopy(messages): a snapshot owns its messages, so a
\* write into the message dicts of the live conversation (the cache manager
\* assigns msg["content"] in place) does not reach the snapshots
snapshots_after_write(hist, live) == hist

\* open(path, 'r', encoding='utf-8').read() raises on a file that is not
\* UTF-8 text
Undecodable == "<not utf-8>"
Readable(content) == content # Undecodable

record_file_change_as_absent(hist, files, path) ==
    IF hist = <<>> THEN hist
    ELSE LET current_snapshot == hist[Len(hist)] IN
         IF current_snapshot.type = "git" THEN hist
         ELSE IF current_snapshot.data[path] # Unrecorded THEN hist
              ELSE [hist EXCEPT ![Len(hist)].data[path] =
                        IF Readable(files[path]) THEN files[path] ELSE Absent]

\* "except Exception: pass": a file that cannot be read is not recorded
record_file_change(hist, files, path) ==
    IF hist = <<>> THEN hist
    ELSE LET current_snapshot == hist[Len(hist)] IN
         IF current_snapshot.type = "git" THEN hist
         ELSE IF current_snapshot.data[path] # Unrecorded THEN hist
              ELSE IF ~Readable(files[path]) THEN hist
                   ELSE [hist EXCEPT ![Len(hist)].data[path] = files[path]]

\* undo, lines 99-115: the files after the restore of last_state.  failed
\* holds the paths whose restore raised (a git command, os.remove, makedirs
\* or open failing): "except Exception" reports it and the path is left as
\* it is, the others are restored
restore_files(last_state, files, failed) ==
    [p \in Paths |->
        IF p \in failed THEN files[p]
        ELSE IF last_state.type = "git" THEN last_state.data[p]
        ELSE IF last_state.data[p] = Unrecorded THEN files[p]
        ELSE last_state.data[p]]

\* the paths undo has to write or remove: the recorded ones of a pre-image
\* snapshot, the ones that differ from the tree of a tree snapshot
Attempted(last_state, files) ==
    IF last_state.type = "git" THEN {p \in Paths : files[p] # last_state.data[p]}
    ELSE {p \in Paths : last_state.data[p] # Unrecorded}

\* the ways the restore can fail: any of the attempted paths may be left
RestoreFailures(hist, files) ==
    IF hist = <<>> THEN {{}} ELSE SUBSET Attempted(hist[Len(hist)], files)

\* the paths in the order the restore loop visits them
PathOrder == <<"/w/f", "/w/g">>

undo_raising(hist, files, failed) ==
    IF hist = <<>> THEN [history |-> hist, fs |-> files, messages |-> <<>>]
    ELSE LET last_state == hist[Len(hist)]
             first == CHOOSE k \in 1..(Len(PathOrder) + 1) :
                          /\ (k <= Len(PathOrder) => PathOrder[k] \in failed)
                          /\ \A j \in 1..(k - 1) : PathOrder[j] \notin failed
             skipped == {PathOrder[j] : j \in first..Len(PathOrder)}
         IN  [history |-> SubSeq(hist, 1, Len(hist) - 1),
              fs |-> restore_files(last_state, files, skipped),
              messages |-> IF failed = {} THEN last_state.messages ELSE <<>>]

\* UndoManager.undo: None (here the empty sequence) on an empty stack,
\* otherwise the snapshot is popped, the files are restored and the stored
\* conversation is returned
undo(hist, files, failed) ==
    IF hist = <<>> THEN [history |-> hist, fs |-> files, messages |-> <<>>]
    ELSE LET last_state == hist[Len(hist)] IN
         [history |-> SubSeq(hist, 1, Len(hist) - 1),
          fs |-> restore_files(last_state, files, failed),
          messages |-> last_state.messages]

install_always(restored, msgs) == restored

\* main, the escape-z binding: if restored: messages[:] = restored
install(restored, msgs) == IF restored # <<>> THEN restored ELSE msgs

(***************************************************************************)
(* Tools: tools.py update_file (full overwrite) behind agent.py's          *)
(* _tracked_update_file.                                                   *)
(***************************************************************************)
WrittenPath == "/w/f"
WrittenContent == "new"

update_file(files, path) == [files EXCEPT ![path] = WrittenContent]

update_file_then_record(hist, files, path) ==
    [history |-> record_file_change(hist, update_file(files, path), path),
     fs |-> update_file(files, path)]

\* agent.py _tracked_update_file: the pre-image is recorded from the files
\* as they are, then the original update_file writes
tracked_update_file(hist, files, path) ==
    [history |-> record_file_change(hist, files, path),
     fs |-> update_file(files, path)]

ErrNotFound == "Error: Tool not found."
ErrRaised == "Error: <exception>"
Cancelled == "Tool execution cancelled by user."
Updated == "Successfully updated (full overwrite)."
Described == "<image description>"

(***************************************************************************)
(* Provider adapters: the retry loops of call_gemini and call_openrouter.  *)
(* For the turn engine a provider call is one await that returns or        *)
(* raises (actions CallReturns and CallRaises below); the loop behind it   *)
(* is stepped attempt by attempt in the specification SpecAdapter.         *)
(***************************************************************************)
HttpAnswers ==
    {"200", "500", "429", "network_error", "400", "error_payload", "no_choices",
     "safety_block"}

\* the answers each backend can give: promptFeedback is Adapter B's field
AnswersOf(prov) ==
    IF prov = "gemini" THEN HttpAnswers ELSE HttpAnswers \ {"safety_block"}

Transient(answer) == answer \in {"500", "429", "network_error"}

\* call_gemini, lines 241-325
call_gemini_step(answer) ==
    CASE answer \in {"500", "429"} -> "retry"
      [] answer = "network_error" -> "retry"
      [] answer = "400" -> "raise"
      [] answer \in {"error_payload", "no_choices"} -> "raise"
      [] answer = "safety_block" -> "raise"
      [] OTHER -> "return"

\* call_openrouter, lines 102-143
call_openrouter_step(answer) ==
    CASE answer \in {"500", "429"} -> "retry"
      [] answer = "network_error" -> "retry"
      [] answer = "400" -> "raise"
      [] answer = "error_payload" -> "retry"
      [] answer = "no_choices" -> "retry"
      [] OTHER -> "return"

call_llm_step_lenient(answer) == IF answer = "200" THEN "return" ELSE "retry"

\* llm.py call_llm
call_llm_step(answer) ==
    IF provider = "gemini" THEN call_gemini_step(answer)
    ELSE call_openrouter_step(answer)

RetryOneMore(n) == n <= MAX_RETRIES

\* while attempt < MAX_RETRIES (gemini), for attempt in range(3) (openrouter)
RetryAllowed(n) == n < MAX_RETRIES

\* call_openrouter applies the cache manager to the live conversation
\* before the request is built; call_gemini does not
ConversationSent(msgs) ==
    IF provider = "openrouter" /\ is_anthropic(model) THEN manage_cache(msgs, model)
    ELSE msgs

\* Adapter B serialises its own tool calls (json.dumps), so their arguments
\* are always JSON; Adapter A passes the backend's strings through
CallsOf(prov) ==
    IF prov = "gemini"
    THEN {tc \in ToolCalls : ~JsonInvalid(tc.arguments)}
    ELSE ToolCalls

BatchesOf(prov) == UNION {[1..n -> CallsOf(prov)] : n \in 1..MaxBatch}

AssistantTexts == {"Done."}
UserInputs == {"list files in /tmp"}

(***************************************************************************)
(* Turn engine: agent.py.                                                  *)
(***************************************************************************)
PCs == {"idle", "loop", "http", "enter", "approve", "exec", "tool_run"}

\* the positions where the task is suspended and the key handlers can run
Suspended == {"http", "tool_run"}

\* the working directories a session starts in: the file the model's
\* update_file calls name has one of the given states, no other file exists
WorkingFiles(states) ==
    {f \in [Paths -> states \cup {Absent}] : \A p \in Paths \ {WrittenPath} : f[p] = Absent}

Config ==
    /\ provider \in Providers
    /\ mode \in Modes
    /\ model \in Models
    /\ git_available \in BOOLEAN
    /\ git_works \in BOOLEAN
    /\ (~git_available => git_works = FALSE)

Init ==
    /\ Config
    /\ messages = <<SystemMsg>>
    /\ history = <<>>
    /\ fs \in WorkingFiles({Absent, "old"})
    /\ pc = "idle"
    /\ stop_requested = FALSE
    /\ apc = "none"
    /\ attempt = 0
    /\ tool_calls = <<>>
    /\ idx = 0
    /\ tool_output = <<>>
    /\ limited = <<>>
    /\ sent = 0
    /\ callEnd = "none"
    /\ msgsAtCall = <<>>
    /\ outcome = "none"
    /\ lastOp = "init"
    /\ turnStarts = <<>>
    /\ fileStarts = <<>>
    /\ orphaned = FALSE
    /\ undoRun = 0
    /\ answers = <<>>
    /\ toolRuns = 0
    /\ stopAtAppend = FALSE

\* what no action of the turn engine changes
Fixed == <<provider, mode, model, git_available, git_works, apc, attempt, sent,
           answers, tool_output, limited>>

TurnStartAppendFirst(hist, msgs, files, user_input) ==
    [history |-> start_turn(hist, Append(msgs, UserMsg(user_input)), files),
     messages |-> Append(msgs, UserMsg(user_input))]

\* process_turn_logic, lines 219-220: snapshot, then append the user message
TurnStart(hist, msgs, files, user_input) ==
    [history |-> start_turn(hist, msgs, files),
     messages |-> Append(msgs, UserMsg(user_input))]

\* main: a non-empty line is submitted; process_turn starts the turn's task
Submit(user_input) ==
    /\ pc = "idle"
    /\ Len(messages) < MaxMsgs
    /\ Len(history) < MaxTurns
    /\ LET ts == TurnStart(history, messages, fs, user_input) IN
         /\ history' = ts.history
         /\ messages' = ts.messages
    /\ turnStarts' = Append(turnStarts, messages)
    /\ fileStarts' = Append(fileStarts, fs)
    /\ undoRun' = 0
    /\ pc' = "loop"
    /\ stop_requested' = FALSE
    /\ callEnd' = "none"
    /\ msgsAtCall' = <<>>
    /\ outcome' = "running"
    /\ lastOp' = "submit"
    /\ toolRuns' = 0
    /\ stopAtAppend' = FALSE
    /\ UNCHANGED <<Fixed, orphaned, fs, tool_calls, idx>>

stop_check_never(flag) == FALSE

\* process_turn: lambda: stop_requested
stop_check(flag) == flag

\* process_turn_logic, lines 222-232: the stop check, then the provider call
\* is issued
LoopTop ==
    /\ pc = "loop"
    /\ IF stop_check(stop_requested)
       THEN /\ pc' = "idle"
            /\ outcome' = "stopped"
            /\ lastOp' = "stop_break"
            /\ stop_requested' = FALSE
            /\ UNCHANGED <<messages, history, callEnd, msgsAtCall>>
       ELSE /\ messages' = ConversationSent(messages)
            /\ history' = snapshots_after_write(history, messages')
            /\ callEnd' = "running"
            /\ msgsAtCall' = messages'
            /\ pc' = "http"
            /\ lastOp' = "request"
            /\ UNCHANGED <<outcome, stop_requested>>
    /\ UNCHANGED <<Fixed, undoRun, orphaned, fileStarts, fs, tool_calls, idx, turnStarts, toolRuns,
                   stopAtAppend>>

ErrorKeepsPartial(msgs) == Append(msgs, AssistantMsg("", <<>>))

\* process_turn_logic, lines 235-238: the conversation after "except Exception"
ConversationOnError(msgs) == msgs

\* the ways call_llm raises: a non-retryable answer, or the retries used up
CallFailures == {"fatal", "exhausted"}

\* the provider call raised: the loop breaks and the turn's task ends
CallRaises(how) ==
    /\ pc = "http"
    /\ messages' = ConversationOnError(messages)
    /\ callEnd' = how
    /\ outcome' = "error"
    /\ pc' = "idle"
    /\ lastOp' = "raise"
    /\ stop_requested' = FALSE
    /\ UNCHANGED <<Fixed, undoRun, orphaned, fileStarts, history, fs, tool_calls, idx, msgsAtCall, turnStarts,
                   toolRuns, stopAtAppend>>

\* process_turn_logic, lines 240-266: the call returned; the assistant message
\* is appended, and the turn ends or execute_tools is entered
CallReturns(text, calls) ==
    /\ pc = "http"
    /\ Len(messages) + 1 + Len(calls) <= MaxMsgs
    /\ messages' = Append(messages, AssistantMsg(text, calls))
    /\ callEnd' = "ok"
    /\ lastOp' = "assistant"
    /\ IF calls = <<>>
       THEN /\ pc' = "idle"
            /\ outcome' = "done"
            /\ stop_requested' = FALSE
            /\ UNCHANGED <<tool_calls, stopAtAppend>>
       ELSE /\ pc' = "enter"
            /\ tool_calls' = calls
            /\ stopAtAppend' = stop_requested
            /\ UNCHANGED <<outcome, stop_requested>>
    /\ UNCHANGED <<Fixed, undoRun, orphaned, fileStarts, history, fs, idx, msgsAtCall, turnStarts, toolRuns>>

\* an exception nobody catches leaves process_turn_logic: run()'s finally
\* exits the application and the prompt returns
TaskDies ==
    /\ pc' = "idle"
    /\ outcome' = "crashed"
    /\ lastOp' = "uncaught"
    /\ tool_calls' = <<>>
    /\ idx' = 0
    /\ stop_requested' = FALSE

\* execute_tools, lines 160-166 (manual: every call of the batch is parsed
\* and shown, then the prompt) and the entry to the loop of line 194 (auto)
ExecuteToolsEnter ==
    /\ pc = "enter"
    /\ IF mode = "manual"
       THEN IF \E k \in 1..Len(tool_calls) : JsonInvalid(tool_calls[k].arguments)
            THEN TaskDies
            ELSE /\ pc' = "approve"
                 /\ lastOp' = "prompt"
                 /\ UNCHANGED <<outcome, tool_calls, idx, stop_requested>>
       ELSE /\ pc' = "exec"
            /\ idx' = 1
            /\ lastOp' = "batch"
            /\ UNCHANGED <<outcome, tool_calls, stop_requested>>
    /\ UNCHANGED <<Fixed, undoRun, orphaned, fileStarts, messages, history, fs, callEnd, msgsAtCall, turnStarts,
                   toolRuns, stopAtAppend>>

\* str.strip() and str.lower() on a line of characters
RECURSIVE lstrip(_)
lstrip(s) == IF s # <<>> /\ Head(s) = " " THEN lstrip(Tail(s)) ELSE s

RECURSIVE rstrip(_)
rstrip(s) ==
    IF s # <<>> /\ s[Len(s)] = " " THEN rstrip(SubSeq(s, 1, Len(s) - 1)) ELSE s

strip(s) == rstrip(lstrip(s))

lower(s) ==
    [i \in 1..Len(s) |->
        CASE s[i] = "N" -> "n"
          [] s[i] = "O" -> "o"
          [] s[i] = "Y" -> "y"
          [] s[i] = "E" -> "e"
          [] s[i] = "S" -> "s"
          [] OTHER -> s[i]]

\* prompt_async raises these on Ctrl-D and Ctrl-C
PromptExceptions == {<<"<EOFError>">>, <<"<KeyboardInterrupt>">>}

\* what the operator can answer to "Execute? [Y/n]": a line of characters,
\* or one of the exceptions
ApprovalAnswers ==
    {<<>>, <<" ">>, <<"y">>, <<"Y", "e", "s">>, <<"n">>, <<"N">>, <<"n", "o">>,
     <<" ", "N", "o", " ">>, <<"n", "o", "p", "e">>, <<"n", " ", "o">>, <<"o", "n">>}
    \cup PromptExceptions

DeclinesUnlessYes(answer) ==
    \/ answer \in PromptExceptions
    \/ lower(strip(answer)) \notin {<<"y">>, <<"y", "e", "s">>}

\* response.strip().lower() in ("n", "no"), or except (EOFError, KeyboardInterrupt)
Declines(answer) ==
    \/ answer \in PromptExceptions
    \/ lower(strip(answer)) \in {<<"n">>, <<"n", "o">>}

CancellationsReversed(calls) ==
    [k \in 1..Len(calls) |-> ToolMsg(calls[Len(calls) + 1 - k], Cancelled)]

\* execute_tools, lines 175-181 and 185-191
Cancellations(calls) == [k \in 1..Len(calls) |-> ToolMsg(calls[k], Cancelled)]

Approval(answer) ==
    /\ pc = "approve"
    /\ IF Declines(answer)
       THEN /\ messages' = messages \o Cancellations(tool_calls)
            /\ pc' = "loop"
            /\ tool_calls' = <<>>
            /\ lastOp' = "decline"
            /\ UNCHANGED idx
       ELSE /\ pc' = "exec"
            /\ idx' = 1
            /\ lastOp' = "batch"
            /\ UNCHANGED <<messages, tool_calls>>
    /\ UNCHANGED <<Fixed, undoRun, orphaned, fileStarts, history, fs, stop_requested, callEnd, msgsAtCall, outcome,
                   turnStarts, toolRuns, stopAtAppend>>

AppendResultReplacing(msgs, tc, result) ==
    Append(SubSeq(msgs, 1, Len(msgs) - 1), ToolMsg(tc, result))

AppendNothing(msgs, tc, result) == msgs

AppendResultBeforeLast(msgs, tc, result) ==
    SubSeq(msgs, 1, Len(msgs) - 1) \o <<ToolMsg(tc, result), msgs[Len(msgs)]>>

\* execute_tools, line 211
AppendResult(msgs, tc, result) == Append(msgs, ToolMsg(tc, result))

\* execute_tools, lines 194-212: one pass of the loop, up to the await of a
\* tool that suspends.  Falling off the end returns to the turn loop.
ToolStep ==
    /\ pc = "exec"
    /\ IF idx > Len(tool_calls)
       THEN /\ pc' = "loop"
            /\ tool_calls' = <<>>
            /\ idx' = 0
            /\ lastOp' = "batch_done"
            /\ UNCHANGED <<messages, history, fs, toolRuns, outcome, stop_requested>>
       ELSE LET tc == tool_calls[idx] IN
            IF JsonInvalid(tc.arguments)
            THEN /\ TaskDies
                 /\ UNCHANGED <<messages, history, fs, toolRuns>>
            ELSE IF tc.name \notin ToolRegistry
            THEN /\ messages' = AppendResult(messages, tc, ErrNotFound)
                 /\ idx' = idx + 1
                 /\ lastOp' = "tool_unknown"
                 /\ UNCHANGED <<pc, tool_calls, history, fs, toolRuns, outcome,
                                stop_requested>>
            ELSE IF ~KeywordsFit(tc.name, tc.arguments)
            THEN /\ messages' = AppendResult(messages, tc, ErrRaised)
                 /\ idx' = idx + 1
                 /\ lastOp' = "tool_raised"
                 /\ UNCHANGED <<pc, tool_calls, history, fs, toolRuns, outcome,
                                stop_requested>>
            ELSE IF tc.name = "update_file"
            THEN /\ history' = tracked_update_file(history, fs, WrittenPath).history
                 /\ fs' = tracked_update_file(history, fs, WrittenPath).fs
                 /\ messages' = AppendResult(messages, tc, Updated)
                 /\ toolRuns' = toolRuns + 1
                 /\ idx' = idx + 1
                 /\ lastOp' = "tool_ran"
                 /\ UNCHANGED <<pc, tool_calls, outcome, stop_requested>>
            ELSE /\ pc' = "tool_run"
                 /\ toolRuns' = toolRuns + 1
                 /\ lastOp' = "tool_started"
                 /\ UNCHANGED <<messages, history, fs, tool_calls, idx, outcome,
                                stop_requested>>
    /\ UNCHANGED <<Fixed, undoRun, orphaned, fileStarts, callEnd, msgsAtCall, turnStarts, stopAtAppend>>

\* the suspended tool (describe_image, which awaits a provider call of its
\* own) returns its text or raises; "except Exception" makes a result of it
ToolFinish(raised) ==
    /\ pc = "tool_run"
    /\ messages' = AppendResult(messages, tool_calls[idx],
                                IF raised THEN ErrRaised ELSE Described)
    /\ idx' = idx + 1
    /\ pc' = "exec"
    /\ lastOp' = IF raised THEN "tool_raised" ELSE "tool_ran"
    /\ UNCHANGED <<Fixed, undoRun, orphaned, fileStarts, history, fs, stop_requested, tool_calls, callEnd,
                   msgsAtCall, outcome, turnStarts, toolRuns, stopAtAppend>>

\* process_turn, Ctrl-W: the soft stop flag
StopRequest ==
    /\ pc \in Suspended
    /\ ~stop_requested
    /\ stop_requested' = TRUE
    /\ UNCHANGED <<Fixed, undoRun, orphaned, fileStarts, messages, history, fs, pc, tool_calls, idx, callEnd,
                   msgsAtCall, outcome, lastOp, turnStarts, toolRuns, stopAtAppend>>

CancelIgnored == pc

\* where the task is after CancelledError was thrown into its await:
\* process_turn_logic re-raises it and run() ends the turn
CancelLands == "idle"

\* process_turn, Ctrl-C: task.cancel().  The HTTP thread's late answer, if
\* any, has no task left to return to.
Cancel ==
    /\ pc \in Suspended
    /\ pc' = CancelLands
    /\ outcome' = "cancelled"
    /\ callEnd' = IF pc = "http" THEN "cancelled" ELSE callEnd
    /\ tool_calls' = IF CancelLands = "idle" THEN <<>> ELSE tool_calls
    /\ idx' = IF CancelLands = "idle" THEN 0 ELSE idx
    /\ stop_requested' = IF CancelLands = "idle" THEN FALSE ELSE stop_requested
    /\ lastOp' = "cancel"
    /\ \E in_thread \in BOOLEAN : orphaned' = (orphaned \/ in_thread)
    /\ UNCHANGED <<Fixed, undoRun, fileStarts, messages, history, fs, msgsAtCall, turnStarts, toolRuns,
                   stopAtAppend>>

\* the request of a cancelled call ends in its thread (requests.post returns
\* or times out); nobody awaits the result.  The thread ends independently
\* of the task, which cannot observe it: the step commutes with the task's
\* own, so it is taken while the task is idle or suspended.
OrphanEnds ==
    /\ orphaned
    /\ pc \in Suspended \cup {"idle"}
    /\ orphaned' = FALSE
    /\ UNCHANGED <<Fixed, undoRun, fileStarts, messages, history, fs, pc, stop_requested,
                   tool_calls, idx, callEnd, msgsAtCall, outcome, lastOp, turnStarts,
                   toolRuns, stopAtAppend>>

\* what the binding has done: "undo" when every path was restored,
\* otherwise the paths whose restore failed
UndoOp(failed) ==
    CASE failed = {} -> "undo"
      [] failed = {"/w/f"} -> "undo, /w/f not restored"
      [] failed = {"/w/g"} -> "undo, /w/g not restored"
      [] OTHER -> "undo, nothing restored"

\* main, the escape-z binding, with UndoManager.undo
Undo ==
    /\ pc = "idle"
    /\ \E failed \in RestoreFailures(history, fs) :
         LET r == undo(history, fs, failed) IN
         /\ history' = r.history
         /\ fs' = r.fs
         /\ messages' = install(r.messages, messages)
         /\ IF r.messages # <<>>
            THEN /\ lastOp' = UndoOp(failed)
                 /\ turnStarts' = SubSeq(turnStarts, 1, Len(turnStarts) - 1)
                 /\ fileStarts' = SubSeq(fileStarts, 1, Len(fileStarts) - 1)
                 /\ undoRun' = undoRun + 1
            ELSE /\ lastOp' = "nothing_to_undo"
                 /\ UNCHANGED <<turnStarts, fileStarts, undoRun>>
    /\ callEnd' = "none"
    /\ msgsAtCall' = <<>>
    /\ outcome' = "none"
    /\ toolRuns' = 0
    /\ stopAtAppend' = FALSE
    /\ UNCHANGED <<Fixed, orphaned, pc, stop_requested, tool_calls, idx>>

Next ==
    \/ \E u \in UserInputs : Submit(u)
    \/ LoopTop
    \/ \E how \in CallFailures : CallRaises(how)
    \/ \E t \in AssistantTexts, c \in BatchesOf(provider) \cup {<<>>} : CallReturns(t, c)
    \/ ExecuteToolsEnter
    \/ \E a \in ApprovalAnswers : Approval(a)
    \/ ToolStep
    \/ \E r \in BOOLEAN : ToolFinish(r)
    \/ StopRequest
    \/ Cancel
    \/ OrphanEnds
    \/ Undo

Spec == Init /\ [][Next]_vars

(***************************************************************************)
(* The provider call from the inside: one call_llm, stepped request by     *)
(* request.  The turn engine waits at its await (pc = "http") throughout;  *)
(* apc is the adapter's position: "request" (requests.post in flight),     *)
(* "sleep" (the backoff), or how the call ended.                           *)
(***************************************************************************)
APCs == {"none", "request", "sleep", "returned", "raised", "cancelled"}

Engine == <<provider, mode, model, git_available, git_works, messages, history, fs,
            pc, stop_requested, tool_calls, idx, tool_output, limited, msgsAtCall,
            outcome, lastOp,
            turnStarts, fileStarts, undoRun, toolRuns, stopAtAppend>>

\* a turn has reached its provider call and the first request is going out
\* the models Adapter A's request is built for: besides the two of the turn
\* engine, one of the OpenAI family and one of no family the adapter knows
AdapterModels == Models \cup {"openai/gpt-4o", "meta-llama/llama-3.1-70b-instruct"}

is_openai(m) == m \in {"openai/gpt-4o"}
is_gemini(m) == m \in {"google/gemini-3-pro-preview"}

\* call_openrouter, lines 79-91: body["provider"]
provider_pin(m) ==
    IF is_anthropic(m) THEN [allow_fallbacks |-> FALSE, order |-> <<"Anthropic">>]
    ELSE IF is_openai(m) THEN [allow_fallbacks |-> FALSE, order |-> <<"OpenAI">>]
    ELSE IF is_gemini(m) THEN [allow_fallbacks |-> FALSE, order |-> <<"Google AI Studio">>]
    ELSE [allow_fallbacks |-> FALSE, order |-> <<>>]

\* call_openrouter, lines 71-91: the body, built once before the retry loop
\* and posted by every attempt
request_body(m) == [model |-> m, provider |-> provider_pin(m)]

InitAdapter ==
    /\ provider \in Providers
    /\ mode \in Modes
    /\ model \in AdapterModels
    /\ git_available \in BOOLEAN
    /\ git_works \in BOOLEAN
    /\ (~git_available => git_works = FALSE)
    /\ \E u \in UserInputs : messages = ConversationSent(<<SystemMsg, UserMsg(u)>>)
    /\ history = <<[messages |-> <<SystemMsg>>, type |-> "manual",
                    data |-> [p \in Paths |-> Unrecorded]]>>
    /\ fs \in WorkingFiles({Absent, "old"})
    /\ pc = "http"
    /\ stop_requested = FALSE
    /\ apc = "request"
    /\ attempt = 0
    /\ tool_calls = <<>>
    /\ idx = 0
    /\ tool_output = <<>>
    /\ limited = <<>>
    /\ sent = 1
    /\ callEnd = "running"
    /\ msgsAtCall = messages
    /\ outcome = "running"
    /\ lastOp = "request"
    /\ turnStarts = <<<<SystemMsg>>>>
    /\ fileStarts = <<fs>>
    /\ orphaned = FALSE
    /\ undoRun = 0
    /\ answers = <<>>
    /\ toolRuns = 0
    /\ stopAtAppend = FALSE

\* one pass of the retry loop's body: the request is answered
Answer(answer) ==
    /\ apc = "request"
    /\ answers' = Append(answers, answer)
    /\ LET step == call_llm_step(answer) IN
         /\ apc' = CASE step = "retry" -> "sleep"
                     [] step = "raise" -> "raised"
                     [] OTHER -> "returned"
         /\ attempt' = IF step = "retry" THEN attempt + 1 ELSE attempt
         /\ callEnd' = CASE step = "retry" -> callEnd
                         [] step = "raise" -> "fatal"
                         [] OTHER -> "ok"
    /\ UNCHANGED <<Engine, orphaned, sent>>

\* the backoff sleep is over: the loop condition admits the next request, or
\* the loop is left and the final raise is reached
SleepDone ==
    /\ apc = "sleep"
    /\ IF RetryAllowed(attempt)
       THEN /\ apc' = "request"
            /\ sent' = sent + 1
            /\ UNCHANGED callEnd
       ELSE /\ apc' = "raised"
            /\ callEnd' = "exhausted"
            /\ UNCHANGED sent
    /\ UNCHANGED <<Engine, orphaned, attempt, answers>>

\* Ctrl-C while the call is awaited: CancelledError at the await
CancelCall ==
    /\ apc \in {"request", "sleep"}
    /\ apc' = "cancelled"
    /\ callEnd' = "cancelled"
    /\ orphaned' = (orphaned \/ apc = "request")
    /\ UNCHANGED <<Engine, attempt, sent, answers>>

\* the next provider call begins with fresh counters
NextCall ==
    /\ apc \in {"returned", "raised", "cancelled"}
    /\ apc' = "request"
    /\ attempt' = 0
    /\ sent' = 1
    /\ answers' = <<>>
    /\ callEnd' = "running"
    /\ UNCHANGED <<Engine, orphaned>>

NextAdapter ==
    \/ \E a \in AnswersOf(provider) : Answer(a)
    \/ SleepDone
    \/ CancelCall
    \/ NextCall
    \/ OrphanEnds

SpecAdapter == InitAdapter /\ [][NextAdapter]_vars

(***************************************************************************)
(* Properties.                                                             *)
(***************************************************************************)
TextOf(content) ==
    IF content.str THEN content.text
    ELSE IF Len(content.parts) > 0 THEN content.parts[1].text ELSE ""

LastMsg == messages[Len(messages)]

\* message i is an assistant message that carries tool calls
IsCalling(i) == messages[i].role = "assistant" /\ messages[i].tool_calls # <<>>

\* the batch of message i is the one execute_tools is working on
BatchOpen(i) ==
    /\ pc \in {"enter", "approve", "exec", "tool_run"}
    /\ \A j \in (i + 1)..Len(messages) : ~IsCalling(j)

\* C1: in every reachable state the message at index 0 has role system and
\* it is the only system message of the conversation.
C1_SystemFirst ==
    /\ Len(messages) >= 1
    /\ messages[1].role = "system"
    /\ \A i \in 2..Len(messages) : messages[i].role # "system"

\* an undo has restored a conversation of a later turn, whose system message
\* the cache manager had marked
C1_Witness ==
    /\ lastOp = "undo"
    /\ Len(messages) > 1
    /\ has_cache(messages[1].content)

\* the n tool messages of message i's calls come directly after it, in call
\* order, and no further tool message follows them
Followed(i) ==
    LET n == Len(messages[i].tool_calls) IN
    /\ i + n <= Len(messages)
    /\ \A k \in 1..n :
          /\ messages[i + k].role = "tool"
          /\ messages[i + k].tool_call_id = messages[i].tool_calls[k].id
    /\ (i + n < Len(messages) => messages[i + n + 1].role # "tool")

\* a further assistant or user message follows message i, or the next
\* provider call is in flight
Superseded(i) ==
    \/ \E j \in (i + 1)..Len(messages) : messages[j].role \in {"assistant", "user"}
    \/ pc = "http"

\* C2: every assistant message with n >= 1 tool calls has exactly n tool
\* messages directly after it, the k-th with the id of the k-th call, before
\* any further assistant or user message and before the next provider call.
C2_ToolResultsFollow ==
    \A i \in 1..Len(messages) : (IsCalling(i) /\ Superseded(i)) => Followed(i)

\* C3: the j-th consecutive undo replaces the conversation with exactly the
\* conversation as it stood before the user message of the j-th last turn
\* was appended, which therefore does not contain that user message.
C3_UndoLIFO ==
    [][(pc = "idle" /\ undoRun' = undoRun + 1) =>
          /\ turnStarts # <<>>
          /\ messages' = turnStarts[Len(turnStarts)]
          /\ Len(history') = Len(history) - 1
          /\ Len(turnStarts') = Len(history')]_vars

\* two turns, then two consecutive undos: back to the initial conversation
C3_Witness ==
    /\ lastOp = "undo"
    /\ undoRun = 2
    /\ history = <<>>
    /\ messages = <<SystemMsg>>

\* C4: one provider call issues at most 3 HTTP attempts; when every attempt
\* fails transiently it issues exactly 3 and then raises, never a 4th; the
\* first successful attempt ends the call with no further attempt.
C4_RetryBound ==
    /\ sent <= 3
    /\ Len(answers) \in {sent - 1, sent}
    /\ (/\ apc \in {"returned", "raised"}
        /\ \A k \in 1..Len(answers) : Transient(answers[k]))
          => (sent = 3 /\ Len(answers) = 3 /\ apc = "raised" /\ callEnd = "exhausted")
    /\ \A k \in 1..Len(answers) :
          answers[k] = "200" => (k = Len(answers) /\ sent = k /\ apc = "returned")

\* a 500, a 429 and a network failure: the call has raised after 3 attempts
C4_Witness ==
    /\ apc = "raised"
    /\ callEnd = "exhausted"
    /\ answers = <<"500", "429", "network_error">>

\* C5: when a provider call raises, the turn has ended (nothing further is
\* called or run) and the conversation is exactly the one the call was
\* issued with.
C5_ErrorKeepsConversation ==
    callEnd \in CallFailures =>
        /\ pc = "idle"
        /\ outcome = "error"
        /\ messages = msgsAtCall

\* the second call of a turn, after a tool batch, used up its retries
C5_Witness ==
    /\ callEnd = "exhausted"
    /\ Len(messages) >= 4
    /\ LastMsg.role = "tool"

\* C6: after a hard cancel during a provider call the engine is idle, the
\* messages appended before the cancel remain and nothing of that call has
\* been appended.
C6_CancelDiscardsCall ==
    callEnd = "cancelled" =>
        /\ pc = "idle"
        /\ outcome = "cancelled"
        /\ messages = msgsAtCall

\* the call after a tool batch was cancelled: the batch's messages remain
C6_Witness ==
    /\ callEnd = "cancelled"
    /\ pc = "idle"
    /\ Len(messages) >= 4
    /\ LastMsg.role = "tool"

\* C7: if the stop flag is set at the check at the top of an iteration, the
\* turn ends there: no provider call is issued, no tool runs, and the
\* conversation is unchanged.
C7_StopAtLoopTop ==
    [][(pc = "loop" /\ stop_requested) =>
          /\ pc' = "idle"
          /\ outcome' = "stopped"
          /\ messages' = messages
          /\ callEnd' = callEnd
          /\ toolRuns' = toolRuns
          /\ fs' = fs
          /\ history' = history]_vars

\* a turn that ran a tool and was then stopped at the top of the loop
C7_Witness ==
    /\ outcome = "stopped"
    /\ lastOp = "stop_break"
    /\ toolRuns >= 1
    /\ LastMsg.role = "tool"

\* C8: if the stop flag is set once an assistant message with tool calls
\* has been appended and before its tools start, the turn stops without
\* executing any of them and that message stays the last of the conversation.
C8_StopBeforeTools ==
    stopAtAppend =>
        /\ LastMsg.role = "assistant"
        /\ pc # "tool_run"

\* a step that declines the batch: n cancellation messages in call order,
\* each with its call's id; no tool runs, no file and no pre-image changes
DeclineStep ==
    (pc = "approve" /\ lastOp' = "decline") =>
        /\ Len(messages') = Len(messages) + Len(tool_calls)
        /\ SubSeq(messages', 1, Len(messages)) = messages
        /\ \A k \in 1..Len(tool_calls) :
              /\ messages'[Len(messages) + k].role = "tool"
              /\ messages'[Len(messages) + k].tool_call_id = tool_calls[k].id
              /\ TextOf(messages'[Len(messages) + k].content) = Cancelled
        /\ toolRuns' = toolRuns
        /\ fs' = fs
        /\ history' = history
        /\ pc' = "loop"

InLastTurn(i) == \A j \in (i + 1)..Len(messages) : messages[j].role # "user"

\* C10: a call of an unknown tool gets a tool message with an error string
\* (or the cancellation, if declined); the failure does not leave the
\* batch, whose remaining calls execute.  Checked on the batches of the
\* last turn that are over and were not cut short by a hard cancel.
C10_ToolFailureContained ==
    \A i \in 1..Len(messages) :
        (IsCalling(i) /\ InLastTurn(i) /\ ~BatchOpen(i) /\ outcome # "cancelled") =>
            \A k \in 1..Len(messages[i].tool_calls) :
                messages[i].tool_calls[k].name \notin ToolRegistry =>
                    /\ i + k <= Len(messages)
                    /\ messages[i + k].role = "tool"
                    /\ messages[i + k].tool_call_id = messages[i].tool_calls[k].id
                    /\ TextOf(messages[i + k].content) \in {ErrNotFound, Cancelled}

\* a message without its cache markers: role, text, calls, id and name
Unmarked(m) == [m EXCEPT !.content = StrContent(TextOf(m.content))]

\* C11: between undos the conversation is append-only: every step other
\* than an undo leaves the existing messages in place and in order (the
\* cache manager moves markers only) and at most appends at the end.  A
\* step is an undo that restores iff it raises undoRun.
C11_AppendOnly ==
    [][undoRun' # undoRun + 1 =>
          /\ Len(messages') >= Len(messages)
          /\ \A i \in 1..Len(messages) : Unmarked(messages'[i]) = Unmarked(messages[i])
      ]_vars

\* a turn whose conversation the cache manager has marked ran a batch and
\* was then stopped softly
C11_Witness ==
    /\ outcome = "stopped"
    /\ has_cache(messages[1].content)
    /\ Len(messages) >= 4

\* the provider HTTP requests in flight: the one the running turn awaits
\* (its own call, or the call inside describe_image) and the one a cancelled
\* task has left behind in its thread
InFlight ==
    (IF pc \in Suspended THEN 1 ELSE 0) + (IF orphaned THEN 1 ELSE 0)

\* C12: in every reachable state at most one provider HTTP call is in
\* flight, and a turn that has not returned to Idle is the only one running.
C12_OneCallInFlight ==
    /\ InFlight <= 1
    /\ (pc # "idle" => outcome = "running")

(***************************************************************************)
(* The turn engine over a working directory that also holds a file that    *)
(* is not UTF-8 text, with Adapter B and its default model.                *)
(***************************************************************************)
InitFiles ==
    /\ provider = "gemini"
    /\ model = "google/gemini-3-pro-preview"
    /\ mode \in Modes
    /\ git_available \in BOOLEAN
    /\ git_works = git_available
    /\ messages = <<SystemMsg>>
    /\ history = <<>>
    /\ fs \in WorkingFiles({Absent, "old", Undecodable})
    /\ pc = "idle"
    /\ stop_requested = FALSE
    /\ apc = "none"
    /\ attempt = 0
    /\ tool_calls = <<>>
    /\ idx = 0
    /\ tool_output = <<>>
    /\ limited = <<>>
    /\ sent = 0
    /\ callEnd = "none"
    /\ msgsAtCall = <<>>
    /\ outcome = "none"
    /\ lastOp = "init"
    /\ turnStarts = <<>>
    /\ fileStarts = <<>>
    /\ orphaned = FALSE
    /\ undoRun = 0
    /\ answers = <<>>
    /\ toolRuns = 0
    /\ stopAtAppend = FALSE

SpecFiles == InitFiles /\ [][Next]_vars

\* C13: in a pre-image snapshot the content recorded for a path is the
\* file's state when the turn began (its content, or None if absent): every
\* path written in the turn is recorded, by the first call, and later calls
\* leave the record alone; a tree-hash-backed snapshot is never changed.
C13_PreImageIsTurnStart ==
    /\ Len(history) = Len(fileStarts)
    /\ \A k \in 1..Len(history) :
          IF history[k].type = "git"
          THEN history[k].data = fileStarts[k]
          ELSE \A p \in Paths : history[k].data[p] \in {Unrecorded, fileStarts[k][p]}
    /\ (history # <<>> /\ history[Len(history)].type = "manual") =>
          \A p \in Paths :
              fs[p] # fileStarts[Len(history)][p] =>
                  history[Len(history)].data[p] # Unrecorded

\* C14: the undo of a turn with a pre-image snapshot returns every path to
\* its state at the start of that turn (deleted if it did not exist, its
\* earlier content otherwise); consecutive undos go back turn by turn.
\* Checked on the undos in which no restore operation failed.
C14_UndoRestoresFiles ==
    [][(/\ undoRun' = undoRun + 1
        /\ lastOp' = "undo"
        /\ history # <<>>
        /\ history[Len(history)].type = "manual")
          => fs' = fileStarts[Len(fileStarts)]]_vars

(***************************************************************************)
(* The cache manager on long conversations.  A conversation grows message  *)
(* by message and manage_cache is applied at any length, so that markers   *)
(* placed on a shorter conversation meet the placement of a longer one.    *)
(* A message has text, or is an assistant message with empty content and   *)
(* a tool call; the latter are drawn next to the candidate positions,      *)
(* where they make the search snap to a neighbour.                         *)
(***************************************************************************)
MaxCacheLen == 26

\* next to a candidate position; around the first candidate, the whole
\* range the search covers, so that a candidate can be left without a hit
NearCandidate(py) ==
    /\ py > 1
    /\ \/ (py % CHECKPOINT_INTERVAL) \in {0, 1, CHECKPOINT_INTERVAL - 1}
       \/ py \in {CHECKPOINT_INTERVAL - 2, CHECKPOINT_INTERVAL + 2}

EmptyAssistant ==
    AssistantMsg("", <<[id |-> "call_1", name |-> "update_file", arguments |-> ARGS_WRITE]>>)

Others == <<provider, mode, git_available, git_works, history, fs, pc, stop_requested,
            apc, attempt, tool_calls, idx, tool_output, limited, sent, callEnd,
            msgsAtCall, outcome,
            turnStarts, fileStarts, orphaned, undoRun, answers, toolRuns, stopAtAppend>>

InitCache ==
    /\ provider = "openrouter"
    /\ mode = "auto"
    /\ model \in Models
    /\ git_available = FALSE
    /\ git_works = FALSE
    /\ messages = <<SystemMsg>>
    /\ history = <<>>
    /\ fs = [p \in Paths |-> Absent]
    /\ pc = "idle"
    /\ stop_requested = FALSE
    /\ apc = "none"
    /\ attempt = 0
    /\ tool_calls = <<>>
    /\ idx = 0
    /\ tool_output = <<>>
    /\ limited = <<>>
    /\ sent = 0
    /\ callEnd = "none"
    /\ msgsAtCall = <<>>
    /\ outcome = "none"
    /\ lastOp = "init"
    /\ turnStarts = <<>>
    /\ fileStarts = <<>>
    /\ orphaned = FALSE
    /\ undoRun = 0
    /\ answers = <<>>
    /\ toolRuns = 0
    /\ stopAtAppend = FALSE

\* messages.append(...)
Grow(empty) ==
    /\ Len(messages) < MaxCacheLen
    /\ empty => NearCandidate(Len(messages))
    /\ messages' = Append(messages,
                          IF empty THEN EmptyAssistant ELSE UserMsg("list files in /tmp"))
    /\ lastOp' = "append"
    /\ UNCHANGED <<Others, model>>

\* manage_cache(messages), in place
ApplyCache ==
    /\ messages' = manage_cache(messages, model)
    /\ lastOp' = "cache"
    /\ UNCHANGED <<Others, model>>

NextCache ==
    \/ \E e \in BOOLEAN : Grow(e)
    \/ ApplyCache

SpecCache == InitCache /\ [][NextCache]_vars

\* the 0-based positions of the messages that carry a cache marker
Marked(msgs) == {q \in 0..(Len(msgs) - 1) : has_cache(msgs[q + 1].content)}

\* C15: for a cache-capable model, running the cache manager a second time
\* on the conversation it has just processed changes neither the marker
\* placement nor any message content.
C15_CacheIdempotent ==
    is_anthropic(model) =>
        LET once == manage_cache(messages, model)
            twice == manage_cache(once, model)
        IN  /\ twice = once
            /\ Marked(twice) = Marked(once)

\* a conversation long enough for three candidates, on which the manager has
\* moved a checkpoint: the message at 8 was marked and is no longer, and
\* the quota of two history markers is in use besides the system marker
C15_Witness ==
    /\ is_anthropic(model)
    /\ lastOp = "cache"
    /\ Len(messages) >= 25
    /\ ~messages[9].content.str
    /\ ~has_cache(messages[9].content)
    /\ Cardinality(Marked(messages)) = 1 + HISTORY_CHECKPOINTS_QUOTA

(***************************************************************************)
(* utils.py limit_output.  A text is the sequence of its characters; the   *)
(* marker is appended as its three pieces, the middle one being            *)
(* str(len(output)).                                                       *)
(***************************************************************************)
tool_output_limit == 1000
char_limit == tool_output_limit * 4

MaxOutput == 8000

limit_output_from_limit(output) ==
    IF Len(output) >= char_limit
    THEN SubSeq(output, 1, char_limit)
         \o <<"\n... (Output truncated. Total length: ", ToString(Len(output)), " chars.)">>
    ELSE output

limit_output(output) ==
    IF Len(output) > char_limit
    THEN SubSeq(output, 1, char_limit)
         \o <<"\n... (Output truncated. Total length: ", ToString(Len(output)), " chars.)">>
    ELSE output

\* the texts drawn: n characters "a", with a "b" at position k if k is in 1..n
Text(n, k) == [i \in 1..n |-> IF i = k THEN "b" ELSE "a"]

OutputLengths ==
    (0..3) \cup ((char_limit - 5)..(char_limit + 5)) \cup {MaxOutput}

Outputs ==
    {Text(n, k) : n \in OutputLengths,
                  k \in {0, 1, 2, char_limit - 1, char_limit, char_limit + 1,
                         char_limit + 2, MaxOutput}}

EngineIdle == <<provider, mode, model, git_available, git_works, messages, history, fs,
                pc, stop_requested, apc, attempt, tool_calls, idx, sent, callEnd,
                msgsAtCall, outcome, turnStarts, fileStarts, orphaned, undoRun, answers,
                toolRuns, stopAtAppend>>

InitLimit ==
    /\ provider = "gemini"
    /\ mode = "auto"
    /\ model = "google/gemini-3-pro-preview"
    /\ git_available = FALSE
    /\ git_works = FALSE
    /\ messages = <<SystemMsg>>
    /\ history = <<>>
    /\ fs = [p \in Paths |-> Absent]
    /\ pc = "idle"
    /\ stop_requested = FALSE
    /\ apc = "none"
    /\ attempt = 0
    /\ tool_calls = <<>>
    /\ idx = 0
    /\ tool_output \in Outputs
    /\ limited = <<>>
    /\ sent = 0
    /\ callEnd = "none"
    /\ msgsAtCall = <<>>
    /\ outcome = "none"
    /\ lastOp = "output"
    /\ turnStarts = <<>>
    /\ fileStarts = <<>>
    /\ orphaned = FALSE
    /\ undoRun = 0
    /\ answers = <<>>
    /\ toolRuns = 0
    /\ stopAtAppend = FALSE

\* a tool (bash, read_file) has its output
Produce(output) ==
    /\ lastOp = "limit"
    /\ tool_output' = output
    /\ limited' = <<>>
    /\ lastOp' = "output"
    /\ UNCHANGED EngineIdle

\* return limit_output(output)
Limit ==
    /\ lastOp = "output"
    /\ limited' = limit_output(tool_output)
    /\ lastOp' = "limit"
    /\ UNCHANGED <<EngineIdle, tool_output>>

NextLimit ==
    \/ \E o \in Outputs : Produce(o)
    \/ Limit

SpecLimit == InitLimit /\ [][NextLimit]_vars

\* C16: limit_output returns its input unchanged when the input has at
\* most 4000 characters, and otherwise exactly its first 4000 characters
\* followed by a marker that states the input's total length.
C16_LimitOutput ==
    lastOp = "limit" =>
        IF Len(tool_output) <= 4000
        THEN limited = tool_output
        ELSE /\ Len(limited) = 4000 + 3
             /\ SubSeq(limited, 1, 4000) = SubSeq(tool_output, 1, 4000)
             /\ limited[4000 + 1] = "\n... (Output truncated. Total length: "
             /\ limited[4000 + 2] = ToString(Len(tool_output))
             /\ limited[4000 + 3] = " chars.)"

\* an output one character over the limit, with that character differing
\* from the rest, has been truncated
C16_Witness ==
    /\ lastOp = "limit"
    /\ Len(tool_output) = 4001
    /\ tool_output[4001] = "b"
    /\ limited[4002] = "4001"

\* the answer the current provider call received last
LastAnswer == answers[Len(answers)]

\* C17: in both adapters an HTTP 200 response with zero choices/candidates
\* and no safety block is a transient failure: the call goes on to retry,
\* and raises on such a response only when it was the third attempt.
C17_EmptyChoicesRetried ==
    (answers # <<>> /\ LastAnswer = "no_choices") =>
        /\ apc # "returned"
        /\ (apc = "raised" => (sent = 3 /\ callEnd = "exhausted"))

\* C18: an HTTP 200 body with an error field is not retried: the adapter
\* raises on it and sends no further request for that call.
C18_ErrorPayloadFatal ==
    \A k \in 1..Len(answers) :
        answers[k] = "error_payload" =>
            /\ k = Len(answers)
            /\ sent = k
            /\ apc = "raised"

\* C19: a non-2xx status other than 5xx and 429 (either adapter) and a
\* safety block (Adapter B) are not retried: the adapter raises on that
\* response and sends no further request.
C19_FatalStatusRaisesAtOnce ==
    \A k \in 1..Len(answers) :
        (answers[k] = "400" \/ (provider = "gemini" /\ answers[k] = "safety_block")) =>
            /\ k = Len(answers)
            /\ sent = k
            /\ apc = "raised"
            /\ callEnd = "fatal"

\* Adapter B has raised on a safety block that was its first answer
C19_Witness ==
    /\ provider = "gemini"
    /\ answers = <<"safety_block">>
    /\ apc = "raised"
    /\ sent = 1

\* the step in which the provider call returns and its message is appended
Returned == pc = "http" /\ lastOp' = "assistant"

\* C20: a turn ends in Done exactly when the provider returns an assistant
\* message without tool calls, which is then the last message and is
\* followed by no call and no tool in that turn; a returned message with
\* tool calls goes to the tool batch instead, and when the batch has run
\* (no stop, cancel or error) its results are in the conversation and the
\* provider is called again.
C20_DoneIffNoToolCalls ==
    [][/\ Returned =>
             /\ messages' = Append(messages, messages'[Len(messages')])
             /\ messages'[Len(messages')].role = "assistant"
             /\ IF messages'[Len(messages')].tool_calls = <<>>
                THEN pc' = "idle" /\ outcome' = "done"
                ELSE pc' = "enter" /\ outcome' = "running"
       /\ (outcome' = "done" /\ outcome # "done") =>
             (Returned /\ messages'[Len(messages')].tool_calls = <<>>)
       /\ outcome = "done" =>
             /\ pc = "idle"
             /\ LastMsg.role = "assistant"
             /\ LastMsg.tool_calls = <<>>
             /\ (pc' # "idle" => lastOp' = "submit")
       /\ (pc = "enter" /\ mode = "auto") => pc' = "exec"
       /\ (pc = "loop" /\ lastOp = "batch_done" /\ ~stop_requested) =>
             /\ pc' = "http"
             /\ callEnd' = "running"
             /\ \A i \in 1..Len(messages) :
                   (IsCalling(i) /\ \A j \in (i + 1)..Len(messages) : ~IsCalling(j))
                       => Followed(i)
      ]_vars

\* a turn that ran one tool batch and then ended in Done on a message
\* without tool calls
C20_Witness ==
    /\ outcome = "done"
    /\ Len(messages) >= 5
    /\ messages[Len(messages) - 1].role = "tool"
    /\ LastMsg.tool_calls = <<>>

\* C21: the tool calls of one assistant message execute one at a time in
\* the order received: while call idx is being executed (or is the next to
\* be), the conversation ends with the assistant message of the batch
\* followed by the tool messages of calls 1..idx-1, in call order, so call
\* i+1 never starts before the tool message of call i is appended.
C21_CallsInOrder ==
    pc \in {"exec", "tool_run"} =>
        LET a == Len(messages) - (idx - 1) IN
        /\ idx >= 1
        /\ a >= 1
        /\ messages[a].role = "assistant"
        /\ messages[a].tool_calls = tool_calls
        /\ \A k \in 1..(idx - 1) :
              /\ messages[a + k].role = "tool"
              /\ messages[a + k].tool_call_id = tool_calls[k].id
              /\ messages[a + k].name = tool_calls[k].name

\* the second call of a batch is suspended in its tool, the first call's
\* result being in the conversation
C21_Witness ==
    /\ pc = "tool_run"
    /\ idx = 2
    /\ Len(tool_calls) = 2
    /\ LastMsg.role = "tool"
    /\ LastMsg.tool_call_id = tool_calls[1].id

\* C22: in manual mode exactly one confirmation is requested per batch of
\* tool calls (every batch handed to execute_tools is prompted for, once)
\* and no tool of the batch starts before the operator has answered it; in
\* automatic mode no confirmation is requested.
C22_OneConfirmationPerBatch ==
    [][/\ pc = "enter" => pc' = (IF mode = "manual" THEN "approve" ELSE "exec")
       /\ (pc' = "approve" /\ pc # "approve") => (pc = "enter" /\ mode = "manual")
       /\ (pc' = "exec" /\ pc \notin {"exec", "tool_run"}) =>
             pc = (IF mode = "manual" THEN "approve" ELSE "enter")
       /\ (toolRuns' = toolRuns + 1) => pc = "exec"
       /\ (mode = "auto" => pc' # "approve")
      ]_vars

\* a step in which the file-writing tool runs
Writes == pc = "exec" /\ lastOp' = "tool_ran" /\ toolRuns' = toolRuns + 1

C24_CacheBeforeEveryCall ==
    [][(pc = "loop" /\ pc' = "http") =>
          /\ ~stop_requested
          /\ messages' = manage_cache(messages, model)
          /\ msgsAtCall' = messages']_vars

\* a step that starts a turn
Starts == pc = "idle" /\ pc' = "loop"

\* a step in which undo pops a snapshot
Undoes == undoRun' = undoRun + 1

\* C25: every started turn pushes exactly one snapshot, whatever the turn's
\* outcome and whether or not the tree snapshot succeeded, and every
\* successful undo pops exactly one; so the stack depth always equals the
\* number of turns started minus the number of successful undos, and
\* snapshots are never merged or reordered: no other step changes the
\* depth, the order or the conversation of a snapshot.
C25_OneSnapshotPerTurn ==
    [][/\ Starts =>
             /\ Len(history') = Len(history) + 1
             /\ SubSeq(history', 1, Len(history)) = history
             /\ history'[Len(history')].messages = messages
       /\ Undoes =>
             /\ history # <<>>
             /\ history' = SubSeq(history, 1, Len(history) - 1)
       /\ (~Starts /\ ~Undoes) =>
             /\ Len(history') = Len(history)
             /\ \A k \in 1..Len(history) :
                   /\ history'[k].messages = history[k].messages
                   /\ history'[k].type = history[k].type
       /\ Len(history') = Len(turnStarts')
       /\ \A k \in 1..Len(history') : history'[k].messages = turnStarts'[k]
      ]_vars

\* two turns were started where git is present but its snapshot fails; the
\* first ended in an error or a cancel, the second was cancelled: both
\* snapshots are on the stack
C25_Witness ==
    /\ git_available
    /\ ~git_works
    /\ pc = "idle"
    /\ outcome = "cancelled"
    /\ Len(history) = 2
    /\ history[1].type = "manual"
    /\ Len(history[2].messages) = 2

\* C26: the conversation stored in a snapshot is a deep copy: no later
\* append to, or in-place mutation of, the live conversation (the cache
\* manager's rewriting of a message's content included) changes the
\* conversation stored in any snapshot on the stack; each still holds the
\* conversation its turn found.
C26_SnapshotIsDeepCopy ==
    [][/\ \A k \in 1..Len(history) :
             k <= Len(history') => history'[k].messages = history[k].messages
       /\ \A k \in 1..Len(history') :
             k <= Len(turnStarts') => history'[k].messages = turnStarts'[k]
      ]_vars

\* the cache manager has rewritten the system message of the live
\* conversation during the second turn; the first snapshot holds it
\* without a marker and as plain text
C26_Witness ==
    /\ lastOp = "request"
    /\ Len(history) = 2
    /\ has_cache(messages[1].content)
    /\ history[1].messages = <<SystemMsg>>
    /\ Len(history[2].messages) >= 3

(***************************************************************************)
(* The undo manager driven through its entry points as agent.py drives     *)
(* them: start_turn when a turn begins, record_file_change from the        *)
(* wrapped update_file while the turn runs, undo between turns.  The model *)
(* writes any of the paths, any number of times; the turn's conversation   *)
(* is reduced to its user message and one closing assistant message.       *)
(***************************************************************************)
InitUndo ==
    /\ provider = "gemini"
    /\ mode = "auto"
    /\ model = "google/gemini-3-pro-preview"
    /\ git_available \in BOOLEAN
    /\ git_works \in BOOLEAN
    /\ (~git_available => git_works = FALSE)
    /\ messages = <<SystemMsg>>
    /\ history = <<>>
    /\ fs \in [Paths -> {Absent, "old", Undecodable}]
    /\ pc = "idle"
    /\ stop_requested = FALSE
    /\ apc = "none"
    /\ attempt = 0
    /\ tool_calls = <<>>
    /\ idx = 0
    /\ tool_output = <<>>
    /\ limited = <<>>
    /\ sent = 0
    /\ callEnd = "none"
    /\ msgsAtCall = <<>>
    /\ outcome = "none"
    /\ lastOp = "init"
    /\ turnStarts = <<>>
    /\ fileStarts = <<>>
    /\ orphaned = FALSE
    /\ undoRun = 0
    /\ answers = <<>>
    /\ toolRuns = 0
    /\ stopAtAppend = FALSE

\* TOOLS["update_file"](path, content) during the turn
WriteFile(path) ==
    /\ pc = "loop"
    /\ toolRuns < Cardinality(Paths) + 1
    /\ history' = tracked_update_file(history, fs, path).history
    /\ fs' = tracked_update_file(history, fs, path).fs
    /\ toolRuns' = toolRuns + 1
    /\ lastOp' = "tool_ran"
    /\ UNCHANGED <<Fixed, undoRun, orphaned, fileStarts, messages, pc, stop_requested,
                   tool_calls, idx, callEnd, msgsAtCall, outcome, turnStarts,
                   stopAtAppend>>

\* the turn ends on an assistant message without tool calls
TurnEnds ==
    /\ pc = "loop"
    /\ messages' = Append(messages, AssistantMsg("Done.", <<>>))
    /\ pc' = "idle"
    /\ outcome' = "done"
    /\ lastOp' = "assistant"
    /\ UNCHANGED <<Fixed, undoRun, orphaned, fileStarts, history, fs, stop_requested,
                   tool_calls, idx, callEnd, msgsAtCall, turnStarts, toolRuns,
                   stopAtAppend>>

NextUndo ==
    \/ \E u \in UserInputs : Submit(u)
    \/ \E p \in Paths : WriteFile(p)
    \/ TurnEnds
    \/ Undo

SpecUndo == InitUndo /\ [][NextUndo]_vars

\* a step of the undo binding on a stack that is not empty
UndoStep == pc = "idle" /\ pc' = "idle" /\ orphaned' = orphaned /\ history # <<>>

\* what a restore that succeeds for path p makes of it
Intended(last_state, p) ==
    IF last_state.type = "git" THEN last_state.data[p]
    ELSE IF last_state.data[p] = Unrecorded THEN fs[p] ELSE last_state.data[p]

\* C27: when filesystem restoration fails during undo (the tree checkout,
\* or any individual recorded path), undo does not raise: the snapshot is
\* still popped, the remaining recorded paths are still restored, and the
\* stored conversation is still returned and installed as the current one.
C27_UndoSurvivesRestoreFailure ==
    [][UndoStep =>
          LET last_state == history[Len(history)] IN
          /\ history' = SubSeq(history, 1, Len(history) - 1)
          /\ messages' = last_state.messages
          /\ undoRun' = undoRun + 1
          /\ outcome' # "crashed"
          /\ \E failed \in SUBSET Paths :
                /\ lastOp' = UndoOp(failed)
                /\ \A p \in failed : fs'[p] = fs[p]
                /\ \A p \in Paths \ failed : fs'[p] = Intended(last_state, p)
      ]_vars

\* a turn wrote both paths under a pre-image snapshot; in its undo the
\* restore of the first path failed and the second path was restored
C27_Witness ==
    /\ lastOp = UndoOp({"/w/f"})
    /\ ~git_available
    /\ history = <<>>
    /\ messages = <<SystemMsg>>
    /\ fs["/w/f"] = WrittenContent
    /\ fs["/w/g"] = "old"

\* C28: undo on an empty snapshot stack reports that there is nothing to
\* undo and changes neither the conversation, nor the filesystem, nor the
\* stack.
C28_NothingToUndo ==
    [][(pc = "idle" /\ pc' = "idle" /\ orphaned' = orphaned /\ history = <<>>) =>
          /\ lastOp' = "nothing_to_undo"
          /\ messages' = messages
          /\ fs' = fs
          /\ history' = <<>>
          /\ undoRun' = undoRun
      ]_vars

\* the stack was emptied by an undo and undo was invoked once more; the
\* file the undone turn had written stays as the first undo left it
C28_Witness ==
    /\ lastOp = "nothing_to_undo"
    /\ history = <<>>
    /\ messages = <<SystemMsg>>
    /\ \E p \in Paths : fs[p] = WrittenContent

\* C29: after the cache manager has run for a cache-capable model, the
\* system message carries exactly one marker and it sits on the last part
\* of its content list (plain-text content having been coerced to a
\* one-part list); this still holds after any number of further runs.
C29_SystemMarker ==
    (lastOp = "cache" /\ is_anthropic(model)) =>
        LET c == messages[1].content IN
        /\ messages[1].role = "system"
        /\ ~c.str
        /\ Len(c.parts) >= 1
        /\ {k \in 1..Len(c.parts) : c.parts[k].cc} = {Len(c.parts)}
        /\ c.parts[Len(c.parts)].text = SYSTEM_PROMPT

\* the manager has just run on a conversation it had processed before: a
\* history message is in list form without a marker, which only the removal
\* of an earlier checkpoint leaves behind
C29_Witness ==
    /\ lastOp = "cache"
    /\ is_anthropic(model)
    /\ messages[1].content = ListContent(<<Part(SYSTEM_PROMPT, TRUE)>>)
    /\ \E q \in 2..Len(messages) :
          ~messages[q].content.str /\ ~has_cache(messages[q].content)

\* the candidate positions: the multiples of the interval above 0
Candidates == {py \in 1..(Len(messages) - 1) : py % 8 = 0}

\* the positions the candidates snap to
Snapped == {best_index(messages, c) : c \in Candidates} \ {-1}

\* the most recent two of them
Kept == {q \in Snapped : Cardinality({r \in Snapped : r > q}) < 2}

\* C30: after the cache manager has run for a cache-capable model, the
\* non-system messages carrying a marker are exactly the kept indices, the
\* most recent 2 (maximum 4 minus 2 reserved) snapped candidate indices;
\* the markers on all other non-system messages have been removed, so the
\* conversation never carries more than 4 markers however long it grows.
C30_MarkersAreKeptIndices ==
    (lastOp = "cache" /\ is_anthropic(model)) =>
        /\ Marked(messages) \ {0} = Kept
        /\ Cardinality(Kept) <= 2
        /\ Cardinality(Marked(messages)) <= 4
        /\ \A q \in Kept :
              LET c == messages[q + 1].content IN
              {k \in 1..Len(c.parts) : c.parts[k].cc} = {Len(c.parts)}

\* three candidates, the one at 16 snapped to a neighbour because the
\* message at 16 has no content; the markers are on the last two snapped
\* positions and the one placed at 8 earlier is gone
C30_Witness ==
    /\ lastOp = "cache"
    /\ is_anthropic(model)
    /\ Len(messages) >= 25
    /\ messages[17] = EmptyAssistant
    /\ Marked(messages) = {0, 15, 24}
    /\ ~messages[9].content.str

\* 0-based index x is inside the conversation, is not index 0 and holds a
\* message with non-empty content
Hit(x) ==
    /\ 0 < x
    /\ x < Len(messages)
    /\ LET c == messages[x + 1].content IN
       IF c.str THEN c.text # "" ELSE Len(c.parts) > 0

\* the first of c, c-1, c+1, c-2, c+2 that is a hit, or -1
Snap(c) ==
    IF Hit(c) THEN c
    ELSE IF Hit(c - 1) THEN c - 1
    ELSE IF Hit(c + 1) THEN c + 1
    ELSE IF Hit(c - 2) THEN c - 2
    ELSE IF Hit(c + 2) THEN c + 2
    ELSE -1

\* C31: the candidate breakpoints are the message indices i > 0 that are
\* multiples of the stride 8; each candidate c is mapped to the first index
\* among c, c-1, c+1, c-2, c+2 (in that order) that lies inside the
\* conversation, is not index 0 and holds a message with non-empty content;
\* a candidate with no such index contributes nothing, and no snapped index
\* occurs twice in the result.
C31_CandidatesAndSnapping ==
    LET cands == candidate_indices(messages, 0)
        snapped == SnapAll(messages, cands, 1, <<>>)
    IN  /\ {cands[k] : k \in 1..Len(cands)} =
              {i \in 1..(Len(messages) - 1) : i % 8 = 0}
        /\ \A j, k \in 1..Len(cands) : j < k => cands[j] < cands[k]
        /\ \A k \in 1..Len(cands) : best_index(messages, cands[k]) = Snap(cands[k])
        /\ {snapped[k] : k \in 1..Len(snapped)} =
              {Snap(cands[k]) : k \in 1..Len(cands)} \ {-1}
        /\ \A j, k \in 1..Len(snapped) : j < k => snapped[j] < snapped[k]

\* the candidate at 8 has no message with content within two positions and
\* contributes nothing; the candidate at 16 snaps back to 15, the one at 24
\* stays, and the markers are there
C31_Witness ==
    /\ lastOp = "cache"
    /\ is_anthropic(model)
    /\ Len(messages) >= 25
    /\ Snap(8) = -1
    /\ Snap(16) = 15
    /\ messages[18].content.text # ""
    /\ Marked(messages) = {0, 15, 24}

\* the texts of a content, part by part; a plain text is its one text
Texts(content) ==
    IF content.str THEN <<content.text>>
    ELSE [k \in 1..Len(content.parts) |-> content.parts[k].text]

\* C32: the cache manager never changes the number, the order or the roles
\* of the messages, nor the text of any content part: it only adds or
\* removes markers (coercing plain text to a one-part list with the same
\* text); and when the active model is not cache-capable it changes
\* nothing at all.
C32_CacheOnlyMovesMarkers ==
    [][lastOp' = "cache" =>
          /\ Len(messages') = Len(messages)
          /\ \A i \in 1..Len(messages) :
                /\ messages'[i].role = messages[i].role
                /\ messages'[i].tool_calls = messages[i].tool_calls
                /\ messages'[i].tool_call_id = messages[i].tool_call_id
                /\ messages'[i].name = messages[i].name
                /\ Texts(messages'[i].content) = Texts(messages[i].content)
                /\ (messages'[i].content.str => messages[i].content.str)
          /\ (~is_anthropic(model) => messages' = messages)
      ]_vars

\* the manager has run again on a longer conversation: it removed the
\* checkpoint at 8, left that message in list form with its text, and
\* marked a message that was plain text
C32_Witness ==
    /\ lastOp = "cache"
    /\ is_anthropic(model)
    /\ Len(messages) >= 25
    /\ messages[9].content = ListContent(<<Part("list files in /tmp", FALSE)>>)
    /\ messages[25].content = ListContent(<<Part("list files in /tmp", TRUE)>>)
    /\ messages[24].content.str

\* C33: every request Adapter A sends, for every configured model, has
\* provider fallback disabled and names a single upstream vendor, and all
\* attempts of one provider call carry the same model identifier and the
\* same provider pin (the body is built once per call from the model).
C33_RequestPinned ==
    (provider = "openrouter" /\ sent >= 1) =>
        LET body == request_body(model) IN
        /\ body.model = model
        /\ ~body.provider.allow_fallbacks
        /\ Len(body.provider.order) = 1

(***************************************************************************)
(* The opaque reasoning tokens on their way through the program: a         *)
(* response is parsed by its adapter, agent.py builds the assistant        *)
(* message from it, and the next request is built from the conversation.   *)
(* Adapter A receives reasoning_details on the message, Adapter B a        *)
(* thoughtSignature on a functionCall part; a field that is absent is      *)
(* NoToken.  Every response carries one tool call, whose tool message      *)
(* follows.                                                                *)
(***************************************************************************)
MaxRounds == 2

NoToken == "<no token>"
Tokens == {"sig-A1", "sig-B2"}

\* the responses a backend gives: the call's id is empty for Adapter B,
\* whose backend supplies none
ResponsesOf(prov) ==
    IF prov = "openrouter"
    THEN {[text |-> "", reasoning_details |-> d,
           calls |-> <<[id |-> "call_1", name |-> "update_file",
                        arguments |-> ARGS_WRITE, signature |-> NoToken]>>] :
             d \in Tokens \cup {NoToken}}
    ELSE {[text |-> "", reasoning_details |-> NoToken,
           calls |-> <<[id |-> "", name |-> "update_file",
                        arguments |-> ARGS_WRITE, signature |-> s]>>] :
             s \in Tokens \cup {NoToken}}

\* call_openrouter, line 130: data["choices"][0]["message"] as it is
openrouter_message(resp) ==
    [content |-> resp.text,
     reasoning_details |-> resp.reasoning_details,
     tool_calls |-> [k \in 1..Len(resp.calls) |->
                        [id |-> resp.calls[k].id, name |-> resp.calls[k].name,
                         arguments |-> resp.calls[k].arguments,
                         thought_signature |-> NoToken]]]

\* call_gemini, lines 283-311: the parts become tool calls with a generated
\* id, the thoughtSignature of a part going to its call
gemini_message(resp) ==
    [content |-> resp.text,
     reasoning_details |-> NoToken,
     tool_calls |-> [k \in 1..Len(resp.calls) |->
                        [id |-> "call_1", name |-> resp.calls[k].name,
                         arguments |-> resp.calls[k].arguments,
                         thought_signature |-> resp.calls[k].signature]]]

\* process_turn_logic, lines 249-256: the assistant message appended
assistant_msg(msg) ==
    [role |-> "assistant", content |-> StrContent(msg.content),
     tool_calls |-> msg.tool_calls, tool_call_id |-> "", name |-> "",
     reasoning_details |-> IF msg.reasoning_details # NoToken
                           THEN msg.reasoning_details ELSE NoToken]

\* prepare_messages_for_openrouter: role, content, tool_calls, tool_call_id
\* and name are copied; reasoning_details only for a Gemini model
prepare_messages_for_openrouter(msgs, m) ==
    [i \in 1..Len(msgs) |->
        [role |-> msgs[i].role,
         content |-> msgs[i].content,
         tool_calls |-> msgs[i].tool_calls,
         reasoning_details |->
             IF msgs[i].role = "assistant" /\ is_gemini(m)
             THEN msgs[i].reasoning_details ELSE NoToken]]

\* call_gemini, lines 175-213: an assistant message becomes a "model" entry
\* with one functionCall part per tool call, its thought_signature attached
gemini_messages(msgs) ==
    [i \in 1..Len(msgs) |->
        IF msgs[i].role = "assistant"
        THEN [role |-> "model",
              parts |-> [k \in 1..Len(msgs[i].tool_calls) |->
                            [functionCall |-> msgs[i].tool_calls[k].name,
                             thoughtSignature |-> msgs[i].tool_calls[k].thought_signature]]]
        ELSE [role |-> msgs[i].role, parts |-> <<>>]]

EchoFrame == <<provider, mode, model, git_available, git_works, history, fs, pc,
               stop_requested, apc, attempt, tool_calls, idx, tool_output, limited,
               sent, callEnd, outcome, turnStarts, fileStarts, orphaned, undoRun,
               toolRuns, stopAtAppend>>

InitEcho ==
    /\ provider \in Providers
    /\ mode = "auto"
    /\ model \in AdapterModels
    /\ git_available = FALSE
    /\ git_works = FALSE
    /\ messages = <<SystemMsg, UserMsg("list files in /tmp")>>
    /\ history = <<>>
    /\ fs = [p \in Paths |-> Absent]
    /\ pc = "idle"
    /\ stop_requested = FALSE
    /\ apc = "none"
    /\ attempt = 0
    /\ tool_calls = <<>>
    /\ idx = 0
    /\ tool_output = <<>>
    /\ limited = <<>>
    /\ sent = 0
    /\ callEnd = "none"
    /\ msgsAtCall = <<>>
    /\ outcome = "none"
    /\ lastOp = "init"
    /\ turnStarts = <<>>
    /\ fileStarts = <<>>
    /\ orphaned = FALSE
    /\ undoRun = 0
    /\ answers = <<>>
    /\ toolRuns = 0
    /\ stopAtAppend = FALSE

\* the request of a provider call is built from the conversation
BuildRequest ==
    /\ lastOp # "request"
    /\ msgsAtCall' = IF provider = "openrouter"
                     THEN prepare_messages_for_openrouter(messages, model)
                     ELSE gemini_messages(messages)
    /\ lastOp' = "request"
    /\ UNCHANGED <<EchoFrame, messages, answers>>

\* the call returns a response with a tool call: the assistant message is
\* appended and, the tool having run, its tool message
Respond(resp) ==
    /\ lastOp = "request"
    /\ Len(answers) < MaxRounds
    /\ LET msg == IF provider = "openrouter" THEN openrouter_message(resp)
                  ELSE gemini_message(resp)
       IN  messages' = messages \o <<assistant_msg(msg),
                                     ToolMsg(msg.tool_calls[1], Updated)>>
    /\ answers' = Append(answers, resp)
    /\ lastOp' = "tool_ran"
    /\ UNCHANGED <<EchoFrame, msgsAtCall>>

NextEcho ==
    \/ BuildRequest
    \/ \E resp \in ResponsesOf(provider) : Respond(resp)

SpecEcho == InitEcho /\ [][NextEcho]_vars

\* C34: for every model, an opaque reasoning token received with an
\* assistant response (reasoning_details for Adapter A, a tool call's
\* thought signature for Adapter B) is stored unmodified on the appended
\* assistant message and is sent back verbatim, attached to the same
\* message and the same tool-call part, in every later request of that
\* conversation.
C34_ReasoningEchoed ==
    \A k \in 1..Len(answers) :
        LET i == 2 * k + 1 IN
        /\ messages[i].role = "assistant"
        /\ messages[i].reasoning_details = answers[k].reasoning_details
        /\ \A j \in 1..Len(answers[k].calls) :
              messages[i].tool_calls[j].thought_signature = answers[k].calls[j].signature
        /\ lastOp = "request" =>
              IF provider = "openrouter"
              THEN msgsAtCall[i].reasoning_details = answers[k].reasoning_details
              ELSE \A j \in 1..Len(answers[k].calls) :
                      msgsAtCall[i].parts[j].thoughtSignature = answers[k].calls[j].signature

\* the tool calls of the conversation, as <<message, position in the batch>>
CallsInConversation ==
    {<<i, k>> : i \in 1..Len(messages), k \in 1..MaxBatch} \cap
    {c \in (1..Len(messages)) \X (1..MaxBatch) : c[2] <= Len(messages[c[1]].tool_calls)}

\* the nearest assistant message before message t
CallerOf(t) ==
    CHOOSE i \in 1..(t - 1) :
        /\ messages[i].role = "assistant"
        /\ \A j \in (i + 1)..(t - 1) : messages[j].role # "assistant"

\* C35: the ids of the tool calls in the conversation are pairwise distinct,
\* the ids the adapter assigns when the backend supplies none included, so
\* every tool message's tool_call_id matches exactly one call of the
\* nearest preceding assistant message.
C35_ToolCallIdsDistinct ==
    /\ \A c, d \in CallsInConversation :
          c # d => messages[c[1]].tool_calls[c[2]].id # messages[d[1]].tool_calls[d[2]].id
    /\ \A t \in 1..Len(messages) :
          messages[t].role = "tool" =>
              LET calls == messages[CallerOf(t)].tool_calls IN
              Cardinality({k \in 1..Len(calls) : calls[k].id = messages[t].tool_call_id}) = 1

(***************************************************************************)
(* The turn engine under the assumptions of its termination: a provider    *)
(* call returns or raises, execute_tools is entered, the approval prompt   *)
(* is answered, and a tool that was started ends.  Nothing is assumed of   *)
(* the operator between turns or of the stop and cancel keys.  One         *)
(* configuration family is explored: Adapter A, no git.                    *)
(***************************************************************************)
InitLive ==
    /\ Init
    /\ provider = "openrouter"
    /\ model = "anthropic/claude-sonnet"
    /\ ~git_available

Fairness ==
    /\ WF_vars(LoopTop)
    /\ WF_vars(\/ \E how \in CallFailures : CallRaises(how)
               \/ \E t \in AssistantTexts, c \in BatchesOf(provider) \cup {<<>>} :
                     CallReturns(t, c))
    /\ WF_vars(ExecuteToolsEnter)
    /\ WF_vars(\E a \in ApprovalAnswers : Approval(a))
    /\ WF_vars(ToolStep)
    /\ WF_vars(\E r \in BOOLEAN : ToolFinish(r))

SpecLive == InitLive /\ [][Next]_vars /\ Fairness

\* C36: every started turn eventually returns control to Idle, through
\* Done, a soft stop, Cancelled or an error (the provider's, or an exception
\* that ends the task), provided every provider call and every tool
\* execution, the approval prompt included, terminates; once the stop flag
\* is set, the turn ends no later than the next loop-top check.
C36_TurnTerminates ==
    /\ (pc # "idle") ~> (pc = "idle")
    /\ [](pc = "idle" =>
             outcome \in {"none", "done", "stopped", "cancelled", "error", "crashed"})
    /\ [][(pc = "loop" /\ stop_requested) => (pc' = "idle" /\ outcome' = "stopped")]_vars

\* a turn in manual mode was asked to stop during its provider call; the
\* batch that call returned was declined, and the turn ended at the next
\* loop-top check
C36_Witness ==
    /\ pc = "idle"
    /\ outcome = "stopped"
    /\ mode = "manual"
    /\ TextOf(LastMsg.content) = Cancelled

\* the answers that decline, as the operator types them
DecliningAnswers ==
    {<<"n">>, <<"N">>, <<"n", "o">>, <<" ", "N", "o", " ">>,
     <<"<EOFError>">>, <<"<KeyboardInterrupt>">>}

\* C37: in manual mode the batch is declined exactly when the operator
\* answers n or no, or the approval prompt ends with end-of-input or a
\* keyboard interrupt; in each of these cases no tool runs, one
\* cancellation tool message per call is appended in call order and the
\* turn continues; every other answer, including an empty one, approves
\* the whole batch.
C37_DeclineExactlyOnNo ==
    [][pc = "approve" =>
          /\ mode = "manual"
          /\ \A a \in ApprovalAnswers : Declines(a) <=> a \in DecliningAnswers
          /\ ~Declines(<<>>)
          /\ \/ /\ lastOp' = "decline"
                /\ messages' = messages \o
                      [k \in 1..Len(tool_calls) |->
                          [role |-> "tool", content |-> StrContent(Cancelled),
                           tool_calls |-> <<>>, tool_call_id |-> tool_calls[k].id,
                           name |-> tool_calls[k].name]]
                /\ toolRuns' = toolRuns
                /\ fs' = fs
                /\ pc' = "loop"
                /\ outcome' = "running"
             \/ /\ lastOp' = "batch"
                /\ messages' = messages
                /\ tool_calls' = tool_calls
                /\ idx' = 1
                /\ pc' = "exec"
      ]_vars

\* a batch of two calls was approved and has run to its end in manual mode
C37_Witness ==
    /\ mode = "manual"
    /\ lastOp = "batch_done"
    /\ Len(messages) >= 5
    /\ LastMsg.role = "tool"
    /\ TextOf(LastMsg.content) # Cancelled
    /\ TextOf(messages[Len(messages) - 1].content) # Cancelled

\* C38: record_file_change on a file that exists but cannot be read does
\* not raise, records nothing for that path and leaves the snapshot's other
\* pre-images unchanged, and the tool's write still proceeds.
C38_UnreadableFileNotRecorded ==
    [][(pc = "loop" /\ toolRuns' = toolRuns + 1) =>
          \E path \in Paths :
              /\ fs' = update_file(fs, path)
              /\ lastOp' = "tool_ran"
              /\ (~Readable(fs[path]) => history' = history)
      ]_vars

\* in the first turn, without git, /w/g was recorded and written and the
\* unreadable /w/f was written without a pre-image
C38_Witness ==
    /\ Len(history) = 1
    /\ undoRun = 0
    /\ history[1].type = "manual"
    /\ history[1].data["/w/g"] = "old"
    /\ history[1].data["/w/f"] = Unrecorded
    /\ fs = [p \in Paths |-> WrittenContent]

====
